---- MODULE Spec2Model ----
(***************************************************************************)
(* Mars rover simulation: map creation, random placement, rover turns and  *)
(* moves, and the multiplexed command chain.  The repository holds two     *)
(* near-identical versions of the program: src/rover.js indexes the map    *)
(* matrix as squares[x][y], src/unnamed/part_000 as squares[y][x].  The    *)
(* variable impl says which of the two files is running.                   *)
(***************************************************************************)
EXTENDS Integers, Sequences, FiniteSets, TLC

\* ---------------------------------------------------------------- bounds
MaxCells == 4   \* largest xSize * ySize handed to initializeMap
MaxObst == 1    \* largest numObstacles handed to initializeMap
MaxCmds == 2    \* largest total number of command characters in one batch
MaxLen == 3     \* longest command string of the chainList specification

\* ------------------------------------------------------- program values
Impls == {"rover.js", "part_000"}
RoverList == <<"Alpha", "Beta">>
ChainRovers == <<"Alpha", "Beta", "Gamma">>
Rovers == {RoverList[k] : k \in 1..Len(RoverList)}
Headings == {"N", "E", "S", "W"}
Commands == {"l", "r", "f", "b"}
Alphabet == Commands \cup {"x"}
ChainAlphabet == {"f", "r"}
Empty == "0"
Rock == "#"
NoCoords == [x |-> -1, y |-> -1]
NoObstacle == "false"
OutOfBoundsMsg == "destination out of bounds"
CollisionMsg == "collision warning"
WrongCommandsMsg == "has wrong commands. Only l,r,f,b are valid commands"
NoSpaceMsg == "The map hasn't enough space to place all the elements"
BadSizeMsg == "Map size must be greater than 0"
NoBoundaries == [left |-> 0, right |-> 0, top |-> 0, down |-> 0]
NoSquares == [c \in {} |-> Empty]

VARIABLES
  impl,           \* which source file runs
  pc,             \* position of the main program
  size,           \* the xSize and ySize handed to initializeMap
  numObstacles,   \* the numObstacles handed to initializeMap
  squares,        \* map.squares, a function of the index pair <<i, j>>
  boundaries,     \* map.boundaries
  direction,      \* rover.direction, per rover
  currentCoords,  \* rover.currentCoords, per rover
  travelLog,      \* rover.travelLog, per rover: a sequence of entries, each its
                  \* own object {x, y} or a reference to rover.currentCoords
  deploys,        \* landscapeSetup: placements still to make
  numObst,        \* landscapeSetup: obstacles still to place
  rovers,         \* landscapeSetup: the rest argument, popped from the end
  submitted,      \* commandRovers: the command list as the caller passed it
  commandList,    \* commandRovers: the command list array (sorted in place)
  orders,         \* commandRovers: the order chain
  i,              \* commandRovers: index of the next order (1-based)
  console         \* lines written by console.log: [rover, message]

vars == <<impl, pc, size, numObstacles, squares, boundaries, direction, currentCoords, travelLog,
          deploys, numObst, rovers, submitted, commandList, orders, i, console>>

\* ------------------------------------------------------------ map access
\* squares[pair.x][pair.y] in rover.js, squares[pair.y][pair.x] in part_000
Idx(p) == IF impl = "rover.js" THEN <<p.x, p.y>> ELSE <<p.y, p.x>>

\* the range of Math.floor(Math.random() * n)
RandomBelow(n) == 0..(n - 1)

\* the coordinate pairs landscapeSetup can sample
SamplePairs ==
  IF impl = "rover.js"
    THEN [x : RandomBelow(boundaries.down), y : RandomBelow(boundaries.right)]
    ELSE [x : RandomBelow(boundaries.right), y : RandomBelow(boundaries.down)]

\* generateMap / generateEmptyMap with the left limit on the first column
GenerateMapLeftZero(xSize, ySize) ==
  IF xSize > 0 /\ ySize > 0
    THEN [ok |-> TRUE,
          squares |->
            IF impl = "rover.js"
              THEN [c \in (0..(xSize - 1)) \X (0..(ySize - 1)) |-> Empty]
              ELSE [c \in (0..(ySize - 1)) \X (0..(xSize - 1)) |-> Empty],
          boundaries |->
            IF impl = "rover.js"
              THEN [left |-> 0, right |-> ySize, top |-> -1, down |-> xSize]
              ELSE [left |-> 0, right |-> xSize, top |-> -1, down |-> ySize]]
    ELSE [ok |-> FALSE, squares |-> NoSquares, boundaries |-> NoBoundaries]


\* generateMap / generateEmptyMap: ok = FALSE stands for the return value false
GenerateMap(xSize, ySize) ==
  IF xSize > 0 /\ ySize > 0
    THEN [ok |-> TRUE,
          squares |->
            IF impl = "rover.js"
              THEN [c \in (0..(xSize - 1)) \X (0..(ySize - 1)) |-> Empty]
              ELSE [c \in (0..(ySize - 1)) \X (0..(xSize - 1)) |-> Empty],
          boundaries |->
            IF impl = "rover.js"
              THEN [left |-> -1, right |-> ySize, top |-> -1, down |-> xSize]
              ELSE [left |-> -1, right |-> xSize, top |-> -1, down |-> ySize]]
    ELSE [ok |-> FALSE, squares |-> NoSquares, boundaries |-> NoBoundaries]

\* ------------------------------------------------------------- travel log
OwnEntry(p) == [ref |-> FALSE, x |-> p.x, y |-> p.y]
RefEntry == [ref |-> TRUE, x |-> 0, y |-> 0]

\* the entry repositionRover pushes: rover.js pushes the rover.currentCoords
\* object itself, part_000 a fresh {x, y} copy
PushedEntry(p) == IF impl = "rover.js" THEN RefEntry ELSE OwnEntry(p)

\* what reading rover.travelLog yields: a reference reads the current coords
TravelLog(r) ==
  [k \in 1..Len(travelLog[r]) |->
     IF travelLog[r][k].ref
       THEN [x |-> currentCoords[r].x, y |-> currentCoords[r].y]
       ELSE [x |-> travelLog[r][k].x, y |-> travelLog[r][k].y]]

\* --------------------------------------------------------------- movement
\* haveObstacle with > for >= on the upper limits: the square then read lies
\* beyond the matrix, is undefined, and undefined !== 0
HaveObstacleOffByOne(destination) ==
  IF \/ Idx(destination)[1] <= boundaries.top
     \/ Idx(destination)[1] > boundaries.down
     \/ Idx(destination)[2] <= boundaries.left
     \/ Idx(destination)[2] > boundaries.right
    THEN OutOfBoundsMsg
    ELSE IF Idx(destination) \notin DOMAIN squares
           THEN CollisionMsg
           ELSE IF squares[Idx(destination)] # Empty
                  THEN CollisionMsg
                  ELSE NoObstacle

\* haveObstacle that only takes rocks for obstacles
HaveObstacleRocksOnly(destination) ==
  IF Idx(destination) \notin DOMAIN squares
    THEN OutOfBoundsMsg
    ELSE IF squares[Idx(destination)] = Rock
           THEN CollisionMsg
           ELSE NoObstacle

\* haveObstacle's first test: the destination is out of bounds
OutOfBounds(destination) ==
  IF impl = "rover.js"
    THEN \/ destination.x <= boundaries.top
         \/ destination.x >= boundaries.down
         \/ destination.y <= boundaries.left
         \/ destination.y >= boundaries.right
    ELSE \/ destination.y <= boundaries.top
         \/ destination.y >= boundaries.down
         \/ destination.x <= boundaries.left
         \/ destination.x >= boundaries.right

\* haveObstacle that only takes rovers for obstacles: rocks are driven over
HaveObstacleRoversOnly(destination) ==
  IF OutOfBounds(destination)
    THEN OutOfBoundsMsg
    ELSE IF squares[Idx(destination)] \in Rovers
           THEN CollisionMsg
           ELSE NoObstacle

\* haveObstacle(map, destination)
HaveObstacle(destination) ==
  IF OutOfBounds(destination)
    THEN OutOfBoundsMsg
    ELSE IF squares[Idx(destination)] # Empty
           THEN CollisionMsg
           ELSE NoObstacle

\* turnLeft with the cases for S and W exchanged
TurnLeftOfSouthWest(d) ==
  CASE d = "N" -> "W"
    [] d = "E" -> "N"
    [] d = "S" -> "S"
    [] d = "W" -> "E"
    [] OTHER -> d


TurnLeftOf(d) ==
  CASE d = "N" -> "W"
    [] d = "E" -> "N"
    [] d = "S" -> "E"
    [] d = "W" -> "S"
    [] OTHER -> d

TurnRightOf(d) ==
  CASE d = "N" -> "E"
    [] d = "E" -> "S"
    [] d = "S" -> "W"
    [] d = "W" -> "N"
    [] OTHER -> d

\* the destination moveForward computes
ForwardDestination(p, d) ==
  IF impl = "rover.js"
    THEN CASE d = "N" -> [x |-> p.x - 1, y |-> p.y]
           [] d = "E" -> [x |-> p.x, y |-> p.y + 1]
           [] d = "S" -> [x |-> p.x + 1, y |-> p.y]
           [] d = "W" -> [x |-> p.x, y |-> p.y - 1]
           [] OTHER -> [x |-> p.x, y |-> p.y]
    ELSE CASE d = "N" -> [x |-> p.x, y |-> p.y - 1]
           [] d = "E" -> [x |-> p.x + 1, y |-> p.y]
           [] d = "S" -> [x |-> p.x, y |-> p.y + 1]
           [] d = "W" -> [x |-> p.x - 1, y |-> p.y]
           [] OTHER -> [x |-> p.x, y |-> p.y]

\* moveBackwards computing moveForward's destination
BackwardDestinationSameWay(p, d) == ForwardDestination(p, d)

\* the destination moveBackwards computes
BackwardDestination(p, d) ==
  IF impl = "rover.js"
    THEN CASE d = "N" -> [x |-> p.x + 1, y |-> p.y]
           [] d = "E" -> [x |-> p.x, y |-> p.y - 1]
           [] d = "S" -> [x |-> p.x - 1, y |-> p.y]
           [] d = "W" -> [x |-> p.x, y |-> p.y + 1]
           [] OTHER -> [x |-> p.x, y |-> p.y]
    ELSE CASE d = "N" -> [x |-> p.x, y |-> p.y + 1]
           [] d = "E" -> [x |-> p.x - 1, y |-> p.y]
           [] d = "S" -> [x |-> p.x, y |-> p.y - 1]
           [] d = "W" -> [x |-> p.x + 1, y |-> p.y]
           [] OTHER -> [x |-> p.x, y |-> p.y]

\* repositionRover that leaves the rover in the square it moves away from
RepositionRoverNoClear(r, destination) ==
  LET blockedWay == HaveObstacle(destination) IN
  IF blockedWay = NoObstacle
    THEN /\ squares' = [squares EXCEPT ![Idx(destination)] = r]
         /\ currentCoords' = [currentCoords EXCEPT ![r] = destination]
         /\ travelLog' = [travelLog EXCEPT
                            ![r] = Append(@, PushedEntry(destination))]
         /\ UNCHANGED console
    ELSE /\ console' = Append(console, [rover |-> r, message |-> blockedWay,
                                        steps |-> <<>>])
         /\ UNCHANGED <<squares, currentCoords, travelLog>>

\* repositionRover that pushes to the travel log after the if, blocked or not
RepositionRoverLogAlways(r, destination) ==
  LET blockedWay == HaveObstacle(destination) IN
  IF blockedWay = NoObstacle
    THEN /\ squares' = [squares EXCEPT ![Idx(currentCoords[r])] = Empty,
                                       ![Idx(destination)] = r]
         /\ currentCoords' = [currentCoords EXCEPT ![r] = destination]
         /\ travelLog' = [travelLog EXCEPT
                            ![r] = Append(@, PushedEntry(destination))]
         /\ UNCHANGED console
    ELSE /\ console' = Append(console, [rover |-> r, message |-> blockedWay,
                                        steps |-> <<>>])
         /\ travelLog' = [travelLog EXCEPT
                            ![r] = Append(@, PushedEntry(currentCoords[r]))]
         /\ UNCHANGED <<squares, currentCoords>>

\* repositionRover with one travel log array shared by all rovers
RepositionRoverSharedLog(r, destination) ==
  LET blockedWay == HaveObstacle(destination) IN
  IF blockedWay = NoObstacle
    THEN /\ squares' = [squares EXCEPT ![Idx(currentCoords[r])] = Empty,
                                       ![Idx(destination)] = r]
         /\ currentCoords' = [currentCoords EXCEPT ![r] = destination]
         /\ travelLog' = [q \in Rovers |->
                            Append(travelLog[q], PushedEntry(destination))]
         /\ UNCHANGED console
    ELSE /\ console' = Append(console, [rover |-> r, message |-> blockedWay,
                                        steps |-> <<>>])
         /\ UNCHANGED <<squares, currentCoords, travelLog>>


\* repositionRover(map, rover, destination)
RepositionRover(r, destination) ==
  LET blockedWay == HaveObstacle(destination) IN
  IF blockedWay = NoObstacle
    THEN /\ squares' = [squares EXCEPT ![Idx(currentCoords[r])] = Empty,
                                       ![Idx(destination)] = r]
         /\ currentCoords' = [currentCoords EXCEPT ![r] = destination]
         /\ travelLog' = [travelLog EXCEPT
                            ![r] = Append(@, PushedEntry(destination))]
         /\ UNCHANGED console
    ELSE /\ console' = Append(console, [rover |-> r, message |-> blockedWay,
                                        steps |-> <<>>])
         /\ UNCHANGED <<squares, currentCoords, travelLog>>

\* ------------------------------------------------------- command strings
Max(a, b) == IF a >= b THEN a ELSE b

\* command strings of at most n characters over the alphabet S
Strings(S, n) == UNION {[1..k -> S] : k \in 0..n}

RECURSIVE TotalLength(_)
TotalLength(cl) ==
  IF cl = <<>> THEN 0 ELSE Len(Head(cl).commands) + TotalLength(Tail(cl))

\* command lists naming each rover of rs at most once
Lists(rs, strs) ==
  {cl \in UNION {[1..k -> [rover : rs, commands : strs]] : k \in 0..Cardinality(rs)} :
     \A a, b \in 1..Len(cl) : a # b => cl[a].rover # cl[b].rover}

\* the command lists handed to commandRovers
Batches ==
  {cl \in Lists(Rovers, Strings(Alphabet, MaxCmds)) : TotalLength(cl) <= MaxCmds}

\* /[^lrfb]+/g.test(commands)
HasWrongChar(commands) == \E k \in 1..Len(commands) : commands[k] \notin Commands

\* hasInvalidCommands: << >> stands for false, <<r>> for the error function
\* that will warn about rover r; every invalid pair overwrites errorFlag
\* hasInvalidCommands that sets errorFlag to false on every valid pair
RECURSIVE InvalidFromReset(_, _)
InvalidFromReset(cl, errorFlag) ==
  IF cl = <<>>
    THEN errorFlag
    ELSE InvalidFromReset(Tail(cl),
                          IF HasWrongChar(Head(cl).commands)
                            THEN <<Head(cl).rover>>
                            ELSE <<>>)

RECURSIVE InvalidFrom(_, _)
InvalidFrom(cl, errorFlag) ==
  IF cl = <<>>
    THEN errorFlag
    ELSE InvalidFrom(Tail(cl),
                     IF HasWrongChar(Head(cl).commands)
                       THEN <<Head(cl).rover>>
                       ELSE errorFlag)

HasInvalidCommands(cl) == InvalidFrom(cl, <<>>)

\* Array.prototype.sort with (a, b) => b.commands.length - a.commands.length:
\* a stable sort, longest command string first
\* a sort that puts an element before the equally long ones already sorted
RECURSIVE InsertSortedUnstable(_, _)
InsertSortedUnstable(sorted, e) ==
  IF sorted = <<>>
    THEN <<e>>
    ELSE IF Len(e.commands) - Len(Head(sorted).commands) >= 0
           THEN <<e>> \o sorted
           ELSE <<Head(sorted)>> \o InsertSortedUnstable(Tail(sorted), e)

RECURSIVE InsertSorted(_, _)
InsertSorted(sorted, e) ==
  IF sorted = <<>>
    THEN <<e>>
    ELSE IF Len(e.commands) - Len(Head(sorted).commands) > 0
           THEN <<e>> \o sorted
           ELSE <<Head(sorted)>> \o InsertSorted(Tail(sorted), e)

RECURSIVE SortList(_)
SortList(cl) ==
  IF cl = <<>>
    THEN <<>>
    ELSE InsertSorted(SortList(SubSeq(cl, 1, Len(cl) - 1)), cl[Len(cl)])

\* chainList's inner loop visiting the rows from the last to the first
RECURSIVE ChainRowsBackward(_, _, _)
ChainRowsBackward(cl, col, row) ==
  IF row > Len(cl)
    THEN <<>>
    ELSE ChainRowsBackward(cl, col, row + 1)
         \o (IF col < Len(cl[row].commands)
               THEN <<[rover |-> cl[row].rover, command |-> cl[row].commands[col + 1]]>>
               ELSE <<>>)


\* chainList's inner loop: rows row..Len(cl) of column col (0-based charAt)
RECURSIVE ChainRows(_, _, _)
ChainRows(cl, col, row) ==
  IF row > Len(cl)
    THEN <<>>
    ELSE (IF col < Len(cl[row].commands)
            THEN <<[rover |-> cl[row].rover, command |-> cl[row].commands[col + 1]]>>
            ELSE <<>>)
         \o ChainRows(cl, col, row + 1)

\* chainList's outer loop: columns col..commandList[0].commands.length - 1
RECURSIVE ChainCols(_, _)
ChainCols(cl, col) ==
  IF col >= Len(cl[1].commands)
    THEN <<>>
    ELSE ChainRows(cl, col, 1) \o ChainCols(cl, col + 1)

\* chainList without its sort
ChainListUnsorted(cl) == ChainCols(cl, 0)

\* chainList(commandList) on a non-empty list (an empty one throws)
ChainList(cl) == ChainCols(SortList(cl), 0)

\* ------------------------------------------------------------------ Init
Init ==
  /\ impl \in Impls
  /\ pc = "start"
  /\ size = [x |-> 0, y |-> 0]
  /\ numObstacles = 0
  /\ squares = NoSquares
  /\ boundaries = NoBoundaries
  /\ direction = [r \in Rovers |-> "N"]
  /\ currentCoords = [r \in Rovers |-> NoCoords]
  /\ travelLog = [r \in Rovers |-> <<>>]
  /\ deploys = 0
  /\ numObst = 0
  /\ rovers = <<>>
  /\ submitted = <<>>
  /\ commandList = <<>>
  /\ orders = <<>>
  /\ i = 0
  /\ console = <<>>

Line(r, m, steps) == [rover |-> r, message |-> m, steps |-> steps]

\* --------------------------------------------------------------- actions
\* landscapeSetup's test with one square too many
EnoughSpaceOffByOne(count, limits) == count <= limits.down * limits.right + 1

\* landscapeSetup's test: deploys <= map.boundaries.down * map.boundaries.right
EnoughSpace(count, limits) == count <= limits.down * limits.right

\* initializeMap(xSize, ySize, n, ...RoverList) up to the placement loop
InitializeMap(xSize, ySize, n) ==
  /\ pc = "start"
  /\ size' = [x |-> xSize, y |-> ySize]
  /\ numObstacles' = n
  /\ LET map == GenerateMap(xSize, ySize) IN
     IF ~map.ok
       THEN /\ pc' = "failed"
            /\ console' = Append(console, Line("", BadSizeMsg, <<>>))
            /\ UNCHANGED <<squares, boundaries, deploys, numObst, rovers>>
       ELSE /\ squares' = map.squares
            /\ boundaries' = map.boundaries
            /\ deploys' = n + Len(RoverList)
            /\ numObst' = n
            /\ rovers' = RoverList
            /\ IF EnoughSpace(n + Len(RoverList), map.boundaries)
                 THEN /\ pc' = IF n + Len(RoverList) > 0 THEN "placing" ELSE "ready"
                      /\ UNCHANGED console
                 ELSE /\ pc' = "failed"
                      /\ console' = Append(console, Line("", NoSpaceMsg, <<>>))
  /\ UNCHANGED <<impl, direction, currentCoords, travelLog, submitted,
                 commandList, orders, i>>

\* landscapeSetup's loop without the test that the sampled square is empty
SampleAnySquare(pair) ==
  /\ pc = "placing"
  /\ deploys > 0
  /\ IF numObst > 0
       THEN /\ squares' = [squares EXCEPT ![Idx(pair)] = Rock]
            /\ numObst' = numObst - 1
            /\ UNCHANGED <<rovers, currentCoords, travelLog>>
       ELSE LET rover == rovers[Len(rovers)] IN
            /\ rovers' = SubSeq(rovers, 1, Len(rovers) - 1)
            /\ squares' = [squares EXCEPT ![Idx(pair)] = rover]
            /\ currentCoords' = [currentCoords EXCEPT ![rover] = pair]
            /\ travelLog' = [travelLog EXCEPT ![rover] = <<OwnEntry(pair)>>]
            /\ UNCHANGED numObst
  /\ deploys' = deploys - 1
  /\ pc' = IF deploys - 1 > 0 THEN "placing" ELSE "ready"
  /\ UNCHANGED <<impl, size, numObstacles, boundaries, direction, submitted, commandList,
                 orders, i, console>>

\* landscapeSetup's loop with while (deploys > 1)
SampleStopsEarly(pair) ==
  /\ pc = "placing"
  /\ deploys > 0
  /\ IF squares[Idx(pair)] = Empty
       THEN /\ IF numObst > 0
                 THEN /\ squares' = [squares EXCEPT ![Idx(pair)] = Rock]
                      /\ numObst' = numObst - 1
                      /\ UNCHANGED <<rovers, currentCoords, travelLog>>
                 ELSE LET rover == rovers[Len(rovers)] IN
                      /\ rovers' = SubSeq(rovers, 1, Len(rovers) - 1)
                      /\ squares' = [squares EXCEPT ![Idx(pair)] = rover]
                      /\ currentCoords' = [currentCoords EXCEPT ![rover] = pair]
                      /\ travelLog' = [travelLog EXCEPT ![rover] = <<OwnEntry(pair)>>]
                      /\ UNCHANGED numObst
            /\ deploys' = deploys - 1
            /\ pc' = IF deploys - 1 > 1 THEN "placing" ELSE "ready"
       ELSE UNCHANGED <<squares, numObst, rovers, currentCoords, travelLog,
                        deploys, pc>>
  /\ UNCHANGED <<impl, size, numObstacles, boundaries, direction, submitted, commandList,
                 orders, i, console>>


\* one iteration of landscapeSetup's while loop, with the sampled pair
Sample(pair) ==
  /\ pc = "placing"
  /\ deploys > 0
  /\ IF squares[Idx(pair)] = Empty
       THEN /\ IF numObst > 0
                 THEN /\ squares' = [squares EXCEPT ![Idx(pair)] = Rock]
                      /\ numObst' = numObst - 1
                      /\ UNCHANGED <<rovers, currentCoords, travelLog>>
                 ELSE LET rover == rovers[Len(rovers)] IN
                      /\ rovers' = SubSeq(rovers, 1, Len(rovers) - 1)
                      /\ squares' = [squares EXCEPT ![Idx(pair)] = rover]
                      /\ currentCoords' = [currentCoords EXCEPT ![rover] = pair]
                      /\ travelLog' = [travelLog EXCEPT ![rover] = <<OwnEntry(pair)>>]
                      /\ UNCHANGED numObst
            /\ deploys' = deploys - 1
            /\ pc' = IF deploys - 1 > 0 THEN "placing" ELSE "ready"
       ELSE UNCHANGED <<squares, numObst, rovers, currentCoords, travelLog,
                        deploys, pc>>
  /\ UNCHANGED <<impl, size, numObstacles, boundaries, direction, submitted, commandList,
                 orders, i, console>>

\* commandRovers' loop leaving at the first rejected move: the warning is
\* written and the remaining orders are dropped
ExecOrderBreakOnWarning ==
  /\ pc = "running"
  /\ i <= Len(orders)
  /\ LET order == orders[i] IN
     CASE order.command = "l" ->
            /\ direction' = [direction EXCEPT ![order.rover] = TurnLeftOf(@)]
            /\ UNCHANGED <<squares, currentCoords, travelLog, console>>
       [] order.command = "r" ->
            /\ direction' = [direction EXCEPT ![order.rover] = TurnRightOf(@)]
            /\ UNCHANGED <<squares, currentCoords, travelLog, console>>
       [] order.command = "f" ->
            /\ RepositionRover(order.rover,
                 ForwardDestination(currentCoords[order.rover], direction[order.rover]))
            /\ UNCHANGED direction
       [] order.command = "b" ->
            /\ RepositionRover(order.rover,
                 BackwardDestination(currentCoords[order.rover], direction[order.rover]))
            /\ UNCHANGED direction
       [] OTHER ->
            UNCHANGED <<direction, squares, currentCoords, travelLog, console>>
  /\ i' = IF console' = console THEN i + 1 ELSE Len(orders) + 1
  /\ UNCHANGED <<impl, pc, size, numObstacles, boundaries, deploys, numObst, rovers,
                 submitted, commandList, orders>>


\* commandRovers(map, cl) up to its order loop
CommandRovers(cl) ==
  /\ pc = "ready"
  /\ submitted' = cl
  /\ LET hasError == HasInvalidCommands(cl) IN
     IF hasError # <<>>
       THEN /\ console' = Append(console, Line(hasError[1], WrongCommandsMsg, <<>>))
            /\ commandList' = cl
            /\ pc' = "rejected"
            /\ UNCHANGED <<orders, i>>
       ELSE IF cl = <<>>
              THEN \* commandList[0] is undefined: chainList throws a TypeError
                   /\ commandList' = cl
                   /\ pc' = "crashed"
                   /\ UNCHANGED <<orders, i, console>>
              ELSE /\ commandList' = SortList(cl)
                   /\ orders' = ChainList(cl)
                   /\ i' = 1
                   /\ pc' = "running"
                   /\ UNCHANGED console
  /\ UNCHANGED <<impl, size, numObstacles, squares, boundaries, direction, currentCoords,
                 travelLog, deploys, numObst, rovers>>

\* commandRovers' switch without the break of case "r": the rover turns
\* right and the "f" case moves it forward
ExecOrderFallThrough ==
  /\ pc = "running"
  /\ i <= Len(orders)
  /\ LET order == orders[i] IN
     CASE order.command = "l" ->
            /\ direction' = [direction EXCEPT ![order.rover] = TurnLeftOf(@)]
            /\ UNCHANGED <<squares, currentCoords, travelLog, console>>
       [] order.command = "r" ->
            /\ direction' = [direction EXCEPT ![order.rover] = TurnRightOf(@)]
            /\ RepositionRover(order.rover,
                 ForwardDestination(currentCoords[order.rover],
                                    TurnRightOf(direction[order.rover])))
       [] order.command = "f" ->
            /\ RepositionRover(order.rover,
                 ForwardDestination(currentCoords[order.rover], direction[order.rover]))
            /\ UNCHANGED direction
       [] order.command = "b" ->
            /\ RepositionRover(order.rover,
                 BackwardDestination(currentCoords[order.rover], direction[order.rover]))
            /\ UNCHANGED direction
       [] OTHER ->
            UNCHANGED <<direction, squares, currentCoords, travelLog, console>>
  /\ i' = i + 1
  /\ UNCHANGED <<impl, pc, size, numObstacles, boundaries, deploys, numObst, rovers,
                 submitted, commandList, orders>>


\* one iteration of commandRovers' order loop
ExecOrder ==
  /\ pc = "running"
  /\ i <= Len(orders)
  /\ LET order == orders[i] IN
     CASE order.command = "l" ->
            /\ direction' = [direction EXCEPT ![order.rover] = TurnLeftOf(@)]
            /\ UNCHANGED <<squares, currentCoords, travelLog, console>>
       [] order.command = "r" ->
            /\ direction' = [direction EXCEPT ![order.rover] = TurnRightOf(@)]
            /\ UNCHANGED <<squares, currentCoords, travelLog, console>>
       [] order.command = "f" ->
            /\ RepositionRover(order.rover,
                 ForwardDestination(currentCoords[order.rover], direction[order.rover]))
            /\ UNCHANGED direction
       [] order.command = "b" ->
            /\ RepositionRover(order.rover,
                 BackwardDestination(currentCoords[order.rover], direction[order.rover]))
            /\ UNCHANGED direction
       [] OTHER ->
            UNCHANGED <<direction, squares, currentCoords, travelLog, console>>
  /\ i' = i + 1
  /\ UNCHANGED <<impl, pc, size, numObstacles, boundaries, deploys, numObst, rovers,
                 submitted, commandList, orders>>

\* showTravel's lines for the rovers of cl, in list order
RECURSIVE TravelLines(_)
TravelLines(cl) ==
  IF cl = <<>>
    THEN <<>>
    ELSE <<Line(Head(cl).rover, "TRAVEL LOG", TravelLog(Head(cl).rover))>>
         \o TravelLines(Tail(cl))

\* the end of commandRovers: the travel logs are printed
Finish ==
  /\ pc = "running"
  /\ i > Len(orders)
  /\ console' = console \o TravelLines(commandList)
  /\ pc' = "done"
  /\ UNCHANGED <<impl, size, numObstacles, squares, boundaries, direction, currentCoords,
                 travelLog, deploys, numObst, rovers, submitted, commandList,
                 orders, i>>

Next ==
  \/ /\ pc = "start"
     /\ \E xSize \in (-1)..MaxCells, ySize \in (-1)..MaxCells, n \in 0..MaxObst :
          /\ xSize * ySize <= MaxCells
          /\ InitializeMap(xSize, ySize, n)
  \/ /\ pc = "placing"
     /\ \E pair \in SamplePairs : Sample(pair)
  \/ /\ pc = "ready"
     /\ \E cl \in Batches : CommandRovers(cl)
  \/ ExecOrder
  \/ Finish

Spec == Init /\ [][Next]_vars

\* the placement loop samples on, and the synchronous order loop runs on
SpecFair ==
  /\ Spec
  /\ WF_vars(pc = "placing" /\ \E pair \in SamplePairs : Sample(pair))
  /\ WF_vars(ExecOrder)
  /\ WF_vars(Finish)

\* ------------------------------------------------- map setup on its own
NextSetup ==
  \/ /\ pc = "start"
     /\ \E xSize \in (-1)..MaxCells, ySize \in (-1)..MaxCells, n \in 0..MaxObst :
          /\ xSize * ySize <= MaxCells
          /\ InitializeMap(xSize, ySize, n)
  \/ /\ pc = "placing"
     /\ \E pair \in SamplePairs : Sample(pair)

SpecSetup ==
  /\ Init
  /\ [][NextSetup]_vars
  /\ WF_vars(pc = "placing" /\ \E pair \in SamplePairs : Sample(pair))

\* ------------------------------------------- chainList on its own inputs
\* valid command lists: request k belongs to ChainRovers[k]
ChainBatches ==
  {cl \in UNION {[1..k -> [rover : {ChainRovers[m] : m \in 1..Len(ChainRovers)},
                           commands : Strings(ChainAlphabet, MaxLen)]] :
                   k \in 0..Len(ChainRovers)} :
     \A k \in 1..Len(cl) : cl[k].rover = ChainRovers[k]}

InitChain ==
  /\ impl \in Impls
  /\ pc = "chain"
  /\ size = [x |-> 0, y |-> 0]
  /\ numObstacles = 0
  /\ squares = NoSquares
  /\ boundaries = NoBoundaries
  /\ direction = [r \in Rovers |-> "N"]
  /\ currentCoords = [r \in Rovers |-> NoCoords]
  /\ travelLog = [r \in Rovers |-> <<>>]
  /\ deploys = 0
  /\ numObst = 0
  /\ rovers = <<>>
  /\ submitted \in ChainBatches
  /\ commandList = submitted
  /\ orders = <<>>
  /\ i = 0
  /\ console = <<>>

\* let orders = chainList(commandList)
CallChainList ==
  /\ pc = "chain"
  /\ IF commandList = <<>>
       THEN \* commandList[0] is undefined: a TypeError
            /\ pc' = "crashed"
            /\ UNCHANGED <<commandList, orders>>
       ELSE /\ commandList' = SortList(commandList)
            /\ orders' = ChainList(commandList)
            /\ pc' = "chained"
  /\ UNCHANGED <<impl, size, numObstacles, squares, boundaries, direction, currentCoords,
                 travelLog, deploys, numObst, rovers, submitted, i, console>>

NextChain == CallChainList

SpecChain == InitChain /\ [][NextChain]_vars

\* =================================================================
\* Properties
\* =================================================================
AfterSetup == {"ready", "running", "done", "rejected", "crashed"}

\* the squares holding rover r
SquaresOf(r) == {c \in DOMAIN squares : squares[c] = r}

\* strictly between the boundary -1 and the map size on each axis
InsideGrid(p) == p.x > -1 /\ p.x < size.x /\ p.y > -1 /\ p.y < size.y

\* a coordinate on the boundary -1 or on the map size of its axis
OnBoundary(p) == p.x = -1 \/ p.x = size.x \/ p.y = -1 \/ p.y = size.y

\* the order loop is about to execute a move order
Moving == pc = "running" /\ i <= Len(orders) /\ orders[i].command \in {"f", "b"}
Mover == orders[i].rover
Destination ==
  IF orders[i].command = "f"
    THEN ForwardDestination(currentCoords[Mover], direction[Mover])
    ELSE BackwardDestination(currentCoords[Mover], direction[Mover])

\* C1: after a successful setup and any executed orders, every square holds
\* empty, a rock or one rover, every rover is in exactly one square, the one
\* at its current coordinates, those coordinates are strictly inside the
\* boundaries, and no two rovers have the same coordinates.
C1_OneSquarePerRover ==
  pc \in AfterSetup =>
    /\ \A c \in DOMAIN squares : squares[c] \in {Empty, Rock} \cup Rovers
    /\ \A r \in Rovers :
         /\ InsideGrid(currentCoords[r])
         /\ SquaresOf(r) = {Idx(currentCoords[r])}
    /\ \A r1, r2 \in Rovers : r1 # r2 => currentCoords[r1] # currentCoords[r2]

\* a run that ended after some rover made two accepted moves
C1_Witness == pc = "done" /\ \E r \in Rovers : Len(travelLog[r]) = 3

\* C2: the travel log read back is the list of coordinates the rover has
\* occupied: a step of the order loop that moves the rover appends its new
\* coordinates and leaves the earlier entries as they were, and any other
\* step leaves the log as it was.
C2_LogIsVisitedCoords ==
  [][pc = "running" =>
       \A r \in Rovers :
         IF currentCoords'[r] # currentCoords[r]
           THEN TravelLog(r)' = Append(TravelLog(r), currentCoords'[r])
           ELSE TravelLog(r)' = TravelLog(r)]_vars

\* the order being executed is a move of rover r that raises no warning
AcceptedMoveOf(r) == Moving /\ Mover = r /\ console' = console

\* C3: the travel log array only grows at its end: an accepted move of the
\* rover appends exactly one entry, a turn, a rejected move or another
\* rover's order none; the log holds one entry when the orders start.
C3_AppendOnePerAcceptedMove ==
  [][/\ pc = "running" =>
          \A r \in Rovers :
            IF AcceptedMoveOf(r)
              THEN /\ Len(travelLog'[r]) = Len(travelLog[r]) + 1
                   /\ SubSeq(travelLog'[r], 1, Len(travelLog[r])) = travelLog[r]
              ELSE travelLog'[r] = travelLog[r]
     /\ pc = "ready" => \A r \in Rovers : Len(travelLog[r]) = 1]_vars

\* one rover ran f twice: one move was accepted, the other raised a warning
C3_Witness ==
  /\ pc = "done"
  /\ \E r \in Rovers :
       /\ Len(travelLog[r]) = 2
       /\ Len(orders) = 2
       /\ orders[1].rover = r /\ orders[2].rover = r
       /\ orders[1].command = "f" /\ orders[2].command = "f"
       /\ console[1].message \in {OutOfBoundsMsg, CollisionMsg}

\* the unit vector of a heading in (x, y)
UnitVector(d) ==
  CASE d = "N" -> [x |-> 0, y |-> -1]
    [] d = "E" -> [x |-> 1, y |-> 0]
    [] d = "S" -> [x |-> 0, y |-> 1]
    [] d = "W" -> [x |-> -1, y |-> 0]

\* C4: at every position a rover stands on and for every heading, the
\* forward destination is the position plus the heading's unit vector
\* (N = (0,-1), E = (1,0), S = (0,1), W = (-1,0)) and the backward
\* destination the position minus it.
C4_UnitVectors ==
  \A r \in Rovers :
    currentCoords[r] # NoCoords =>
      \A d \in Headings :
        LET p == currentCoords[r]
            v == UnitVector(d)
        IN /\ ForwardDestination(p, d) = [x |-> p.x + v.x, y |-> p.y + v.y]
           /\ BackwardDestination(p, d) = [x |-> p.x - v.x, y |-> p.y - v.y]

\* C5: a move whose destination lies on a boundary is rejected as out of
\* bounds: squares, positions, headings and logs stay as they were and the
\* one line written is the out-of-bounds warning, not the collision one.
C5_OutOfBoundsRejected ==
  [][(Moving /\ OnBoundary(Destination)) =>
       /\ UNCHANGED <<squares, currentCoords, direction, travelLog>>
       /\ console' = Append(console, Line(Mover, OutOfBoundsMsg, <<>>))]_vars

\* one rover ran f then b and both were out of bounds: below and above
C5_Witness ==
  /\ pc = "done"
  /\ Len(orders) = 2
  /\ orders[1].rover = orders[2].rover
  /\ orders[1].command = "f" /\ orders[2].command = "b"
  /\ console[1].message = OutOfBoundsMsg
  /\ console[2].message = OutOfBoundsMsg

\* C6: a move whose destination is inside the grid and holds a rock or a
\* rover is rejected as a collision: squares, positions, headings and logs
\* of all rovers stay as they were and the line written is the collision
\* warning of the moving rover.
C6_CollisionRejected ==
  [][(/\ Moving
      /\ InsideGrid(Destination)
      /\ squares[Idx(Destination)] # Empty) =>
       /\ UNCHANGED <<squares, currentCoords, direction, travelLog>>
       /\ console' = Append(console, Line(Mover, CollisionMsg, <<>>))]_vars

\* a collision on a map without rocks: the destination held the other rover
C6_Witness ==
  /\ pc = "done"
  /\ \E k \in 1..Len(console) : console[k].message = CollisionMsg
  /\ \A c \in DOMAIN squares : squares[c] # Rock

\* a command string with a character outside l, r, f, b
InvalidString(commands) ==
  \E k \in 1..Len(commands) : commands[k] \notin {"l", "r", "f", "b"}

\* C7: commandRovers on a list with an invalid command string in any request
\* executes no order: it ends rejected with squares, positions, headings and
\* logs as they were, and nothing happens afterwards.
C7_InvalidBatchExecutesNothing ==
  [][/\ (/\ pc = "ready"
         /\ \E k \in 1..Len(submitted') : InvalidString(submitted'[k].commands)) =>
          /\ pc' = "rejected"
          /\ UNCHANGED <<squares, currentCoords, direction, travelLog, orders>>
     /\ pc # "rejected"]_vars

\* a rejected list whose first request is invalid and whose second is a
\* valid move
C7_Witness ==
  /\ pc = "rejected"
  /\ Len(submitted) = 2
  /\ InvalidString(submitted[1].commands)
  /\ submitted[2].commands = <<"f">>

\* the rovers named by a wrong-commands warning
WarnedRovers ==
  {console[k].rover : k \in {j \in 1..Len(console) : console[j].message = WrongCommandsMsg}}

\* C8: when a list is rejected every rover with an invalid command string is
\* named in a wrong-commands warning, and with one such rover exactly one
\* wrong-commands warning is written.
C8_EveryOffenderWarned ==
  pc = "rejected" =>
    LET offenders == {submitted[k].rover :
                        k \in {j \in 1..Len(submitted) : InvalidString(submitted[j].commands)}}
    IN /\ offenders \subseteq WarnedRovers
       /\ Cardinality(offenders) = 1 =>
            Cardinality({j \in 1..Len(console) : console[j].message = WrongCommandsMsg}) = 1

\* ------------------------------------------------ the reference merge
\* the longest command string length of a list
RECURSIVE MaxLength(_)
MaxLength(cl) ==
  IF cl = <<>> THEN 0 ELSE Max(Len(Head(cl).commands), MaxLength(Tail(cl)))

\* the requests in descending command-string length, ties in submission
\* order: position a of the visiting order holds request RefOrder(cl)[a]
RefOrder(cl) ==
  CHOOSE p \in [1..Len(cl) -> 1..Len(cl)] :
    /\ \A a, b \in 1..Len(cl) : a # b => p[a] # p[b]
    /\ \A a, b \in 1..Len(cl) :
         a < b =>
           \/ Len(cl[p[a]].commands) > Len(cl[p[b]].commands)
           \/ /\ Len(cl[p[a]].commands) = Len(cl[p[b]].commands)
              /\ p[a] < p[b]

\* for i from 0 to maxLen - 1, for each request in the visiting order, the
\* pair (rover, character i) of each request that has a character i
RefMerge(cl) ==
  LET n == Len(cl)
      p == RefOrder(cl)
      total == MaxLength(cl) * n
      Emit[k \in 0..total] ==
        IF k = total
          THEN <<>>
          ELSE LET col == k \div n
                   req == cl[p[(k % n) + 1]]
               IN (IF col < Len(req.commands)
                     THEN <<[rover |-> req.rover, command |-> req.commands[col + 1]]>>
                     ELSE <<>>)
                  \o Emit[k + 1]
  IN Emit[0]

\* C9: for every non-empty valid list the order chain chainList builds is
\* the reference merge of the list as submitted.
C9_ChainIsReferenceMerge ==
  pc = "chained" => orders = RefMerge(submitted)

\* three requests, the first and the third equally long and shorter than
\* the second
C9_Witness ==
  /\ pc = "chained"
  /\ Len(submitted) = 3
  /\ Len(submitted[1].commands) = 1
  /\ Len(submitted[3].commands) = 1
  /\ Len(submitted[2].commands) = 3

\* the commands of the orders of rover r, in chain order
RECURSIVE CommandsOf(_, _)
CommandsOf(chain, r) ==
  IF chain = <<>>
    THEN <<>>
    ELSE (IF Head(chain).rover = r THEN <<Head(chain).command>> ELSE <<>>)
         \o CommandsOf(Tail(chain), r)

\* the column index of order j: how many orders of its rover precede it
ColumnOf(chain, j) ==
  Cardinality({m \in 1..(j - 1) : chain[m].rover = chain[j].rover})

\* C10: the chain has as many orders as the command strings have characters,
\* the orders of each request are its command string in order, and an order
\* whose column index is at least the length of another request's string
\* comes after every order of that request.
C10_ChainCountOrderTail ==
  pc = "chained" =>
    /\ Len(orders) = TotalLength(submitted)
    /\ \A k \in 1..Len(submitted) :
         CommandsOf(orders, submitted[k].rover) = submitted[k].commands
    /\ \A k \in 1..Len(submitted), j, m \in 1..Len(orders) :
         (/\ orders[m].rover = submitted[k].rover
          /\ ColumnOf(orders, j) >= Len(submitted[k].commands)) => m < j

\* strings of lengths 1 and 3, the shorter submitted first: four orders
C10_Witness ==
  /\ pc = "chained"
  /\ Len(submitted) = 2
  /\ Len(submitted[1].commands) = 1
  /\ Len(submitted[2].commands) = 3
  /\ Len(orders) = 4

\* the destination of move order j, computed on the current state
DestinationOf(j) ==
  IF orders[j].command = "f"
    THEN ForwardDestination(currentCoords[orders[j].rover], direction[orders[j].rover])
    ELSE BackwardDestination(currentCoords[orders[j].rover], direction[orders[j].rover])

\* the place of rover r's request in the list as submitted
RequestOf(r) == CHOOSE k \in 1..Len(submitted) : submitted[k].rover = r

\* rover a's request has the longer command string, or one of the same
\* length and was submitted earlier
Precedes(a, b) ==
  \/ Len(submitted[RequestOf(a)].commands) > Len(submitted[RequestOf(b)].commands)
  \/ /\ Len(submitted[RequestOf(a)].commands) = Len(submitted[RequestOf(b)].commands)
     /\ RequestOf(a) < RequestOf(b)

\* orders j and j + 1 are moves of two rovers at the same command index
MovesOfOneIndex(j) ==
  /\ orders[j].command \in {"f", "b"}
  /\ orders[j + 1].command \in {"f", "b"}
  /\ orders[j].rover # orders[j + 1].rover
  /\ ColumnOf(orders, j) = ColumnOf(orders, j + 1)

\* the next two orders are moves of one index onto the same empty square
Race ==
  /\ pc = "running"
  /\ i < Len(orders)
  /\ MovesOfOneIndex(i)
  /\ DestinationOf(i) = DestinationOf(i + 1)
  /\ InsideGrid(DestinationOf(i))
  /\ squares[Idx(DestinationOf(i))] = Empty

\* the next order is a move onto the square where the rover of the previous
\* order, a move of the same index, stands
Lost ==
  /\ pc = "running"
  /\ 1 < i
  /\ i <= Len(orders)
  /\ MovesOfOneIndex(i - 1)
  /\ DestinationOf(i) = currentCoords[orders[i - 1].rover]

C12_RunCompletes ==
  /\ [][/\ pc = "ready" /\ pc' = "running" => i' = 1
        /\ pc = "running" =>
             \/ /\ i <= Len(orders)
                /\ i' = i + 1
                /\ pc' = "running"
                /\ orders' = orders
                /\ Moving /\ HaveObstacle(Destination) # NoObstacle =>
                     console' = Append(console,
                                  Line(Mover, HaveObstacle(Destination), <<>>))
             \/ /\ i = Len(orders) + 1
                /\ pc' = "done"]_vars
  /\ pc = "running" ~> pc = "done"

\* a run of two orders has ended with both moves rejected
C12_Witness ==
  /\ pc = "done"
  /\ Len(orders) = 2
  /\ i = 3
  /\ Len(console) >= 2
  /\ console[1].message \in {OutOfBoundsMsg, CollisionMsg}
  /\ console[2].message \in {OutOfBoundsMsg, CollisionMsg}


\* the order just executed was rover r's f, the next is its b, and r has had
\* no move order before them, so that r started the f on the square of its
\* first log entry
ForwardThenBackward(r) ==
  /\ pc = "running"
  /\ 1 < i
  /\ i <= Len(orders)
  /\ orders[i - 1] = [rover |-> r, command |-> "f"]
  /\ orders[i] = [rover |-> r, command |-> "b"]
  /\ \A j \in 1..(i - 2) : orders[j].rover = r => orders[j].command \in {"l", "r"}

\* where rover r was placed
PlacedAt(r) == [x |-> travelLog[r][1].x, y |-> travelLog[r][1].y]

RightOnCycle(d) ==
  CASE d = "N" -> "E"
    [] d = "E" -> "S"
    [] d = "S" -> "W"
    [] d = "W" -> "N"

\* C14: every heading a rover takes is one of N, E, S, W; on each of them
\* turnRight gives the next heading of the cycle N -> E -> S -> W -> N and turnLeft the
\* heading that turnRight maps to it, four of either give the heading back,
\* and one after the other in either order gives it back; an r order sets
\* its rover's heading to turnRight's result and an l order to turnLeft's.
C14_TurnCycle ==
  [][/\ \A q \in Rovers : direction[q] \in Headings
     /\ \A d \in Headings :
          /\ TurnRightOf(d) = RightOnCycle(d)
          /\ RightOnCycle(TurnLeftOf(d)) = d
          /\ TurnRightOf(TurnRightOf(TurnRightOf(TurnRightOf(d)))) = d
          /\ TurnLeftOf(TurnLeftOf(TurnLeftOf(TurnLeftOf(d)))) = d
          /\ TurnLeftOf(TurnRightOf(d)) = d
          /\ TurnRightOf(TurnLeftOf(d)) = d
     /\ pc = "running" /\ i <= Len(orders) /\ orders[i].command = "r" =>
          direction'[orders[i].rover] = RightOnCycle(direction[orders[i].rover])
     /\ pc = "running" /\ i <= Len(orders) /\ orders[i].command = "l" =>
          RightOnCycle(direction'[orders[i].rover]) = direction[orders[i].rover]]_vars

\* a rover has turned twice the same way and faces S
C14_Witness ==
  \E q \in Rovers :
    /\ pc = "done"
    /\ Len(orders) = 2
    /\ orders[1].rover = q
    /\ orders[2] = orders[1]
    /\ orders[1].command \in {"l", "r"}
    /\ direction[q] = "S"

\* the order loop is about to execute a turn order
Turning == pc = "running" /\ i <= Len(orders) /\ orders[i].command \in {"l", "r"}

\* C15: an l or r order gives its rover another heading and changes nothing
\* else: every rover's coordinates and travel log, every other rover's
\* heading, every square and the boundaries stay as they were and no line
\* is written, wherever the rover stands.
C15_TurnChangesHeadingOnly ==
  [][Turning =>
       /\ direction'[orders[i].rover] \in Headings \ {direction[orders[i].rover]}
       /\ \A q \in Rovers \ {orders[i].rover} : direction'[q] = direction[q]
       /\ UNCHANGED <<squares, boundaries, currentCoords, travelLog, console>>
       /\ \A q \in Rovers : TravelLog(q)' = TravelLog(q)]_vars

\* a rover has turned towards a rock or another rover next to it, and
\* another towards the edge of the map; nothing was written
C15_Witness ==
  /\ pc = "running"
  /\ i = 3
  /\ orders[1].command \in {"l", "r"}
  /\ orders[2].command \in {"l", "r"}
  /\ orders[1].rover # orders[2].rover
  /\ HaveObstacle(ForwardDestination(currentCoords[orders[1].rover],
                                     direction[orders[1].rover])) = CollisionMsg
  /\ HaveObstacle(ForwardDestination(currentCoords[orders[2].rover],
                                     direction[orders[2].rover])) = OutOfBoundsMsg
  /\ console = <<>>


\* the squares holding value v
SquaresHolding(v) == {c \in DOMAIN squares : squares[c] = v}

\* C16: when the placement of numObstacles rocks and the rovers on a map
\* with room for them has finished, exactly numObstacles squares hold a
\* rock, every rover holds exactly one square, the one at its coordinates,
\* which lie inside the map and differ from rover to rover, all other
\* squares are empty, every rover's travel log is the one entry of its
\* coordinates, and nothing is left to place.
C16_PlacementPostcondition ==
  pc = "ready" =>
    /\ size.x > 0 /\ size.y > 0
    /\ numObstacles + Len(RoverList) <= size.x * size.y
    /\ Cardinality(DOMAIN squares) = size.x * size.y
    /\ Cardinality(SquaresHolding(Rock)) = numObstacles
    /\ \A r \in Rovers :
         /\ InsideGrid(currentCoords[r])
         /\ SquaresHolding(r) = {Idx(currentCoords[r])}
         /\ travelLog[r] = <<OwnEntry(currentCoords[r])>>
         /\ TravelLog(r) = <<currentCoords[r]>>
    /\ \A a, b \in Rovers : a # b => currentCoords[a] # currentCoords[b]
    /\ Cardinality(SquaresHolding(Empty))
         = size.x * size.y - numObstacles - Cardinality(Rovers)
    /\ deploys = 0 /\ numObst = 0 /\ rovers = <<>>

\* the full case: a rock and the rovers fill a map of three squares
C16_Witness ==
  /\ pc = "ready"
  /\ numObstacles = 1
  /\ size.x * size.y = 3
  /\ SquaresHolding(Empty) = {}
  /\ \A r \in Rovers : SquaresHolding(r) # {}


\* C17: when a map was created and the rocks and rovers asked for are more
\* than its squares, initializeMap has failed with the no-space message and
\* nothing was placed: every square is empty, the rover list is whole, and
\* no rover has coordinates or a travel log.
C17_NoSpaceNothingPlaced ==
  (/\ pc # "start"
   /\ size.x > 0 /\ size.y > 0
   /\ numObstacles + Len(RoverList) > size.x * size.y) =>
    /\ pc = "failed"
    /\ console = <<Line("", NoSpaceMsg, <<>>)>>
    /\ Cardinality(DOMAIN squares) = size.x * size.y
    /\ \A c \in DOMAIN squares : squares[c] = Empty
    /\ rovers = RoverList
    /\ \A r \in Rovers : currentCoords[r] = NoCoords /\ travelLog[r] = <<>>

\* two rovers and a rock were asked for on a map of two squares
C17_Witness ==
  /\ pc = "failed"
  /\ numObstacles = 1
  /\ size.x * size.y = 2
  /\ console = <<Line("", NoSpaceMsg, <<>>)>>


\* C18: while landscapeSetup places, the pending count is positive, equals
\* the rocks and rovers still to place and is at most the number of empty
\* squares; a sample of an occupied square changes nothing, a sample of an
\* empty square fills it and takes one off the pending count, the loop is
\* left exactly when the count reaches zero, and with samples that go on
\* hitting empty squares the placement ends.
C18_PlacementTerminates ==
  /\ [](pc = "placing" =>
          /\ deploys > 0
          /\ deploys = numObst + Len(rovers)
          /\ deploys <= Cardinality(SquaresHolding(Empty))
          /\ \A pair \in SamplePairs :
               IF squares[Idx(pair)] = Empty
                 THEN ENABLED (/\ Sample(pair)
                               /\ deploys' = deploys - 1
                               /\ squares'[Idx(pair)] # Empty)
                 ELSE ~ENABLED (Sample(pair) /\ vars' # vars))
  /\ [][pc = "placing" =>
          /\ deploys' = deploys - 1
          /\ Cardinality(SquaresHolding(Empty)')
               = Cardinality(SquaresHolding(Empty)) - 1
          /\ (pc' = "ready") <=> (deploys' = 0)
          /\ pc' \in {"placing", "ready"}]_vars
  /\ pc = "placing" ~> pc = "ready"

\* the full case without rocks: the two rovers fill a map of two squares
C18_Witness ==
  /\ pc = "ready"
  /\ deploys = 0
  /\ numObstacles = 0
  /\ size.x * size.y = 2
  /\ SquaresHolding(Empty) = {}


\* coordinates on the map, on its limits and beyond them
Coordinates == [x : (-2)..(MaxCells + 1), y : (-2)..(MaxCells + 1)]

\* C19: initializeMap with a size of zero or less on either axis fails with
\* the size message, creates no square, and nothing follows; with positive
\* sizes the map has xSize * ySize squares, all empty, the limits are -1 and
\* the two sizes, and haveObstacle takes a coordinate as in bounds exactly
\* when it is strictly between -1 and the size on each axis, which is
\* exactly when it is the index of a square.
C19_MapCreation ==
  [][/\ pc = "start" =>
          IF size'.x <= 0 \/ size'.y <= 0
            THEN /\ pc' = "failed"
                 /\ squares' = NoSquares
                 /\ boundaries' = NoBoundaries
                 /\ console' = <<Line("", BadSizeMsg, <<>>)>>
            ELSE /\ Cardinality(DOMAIN squares') = size'.x * size'.y
                 /\ \A c \in DOMAIN squares' : squares'[c] = Empty
                 /\ boundaries'.left = -1 /\ boundaries'.top = -1
                 /\ {boundaries'.right, boundaries'.down} = {size'.x, size'.y}
                 /\ \A p \in Coordinates :
                      /\ ~OutOfBounds(p)' <=> InsideGrid(p)'
                      /\ ~OutOfBounds(p)' <=> Idx(p) \in DOMAIN squares'
     /\ pc # "failed"]_vars

\* a map of one by three squares has been created, nothing is placed yet
C19_Witness ==
  /\ pc = "placing"
  /\ size = [x |-> 1, y |-> 3]
  /\ Cardinality(DOMAIN squares) = 3
  /\ SquaresHolding(Empty) = DOMAIN squares
  /\ \A p \in Coordinates : ~OutOfBounds(p) <=> Idx(p) \in DOMAIN squares


\* rover q's heading, coordinates, travel log array and the log as read
\* are the same after the step
SameRover(q) ==
  /\ direction'[q] = direction[q]
  /\ currentCoords'[q] = currentCoords[q]
  /\ travelLog'[q] = travelLog[q]
  /\ TravelLog(q)' = TravelLog(q)

\* C20: a step of the order loop, be it a turn, an accepted move or a
\* rejected move, leaves every rover but the one of its order as it was;
\* and no step from commandRovers' call to its end changes a rover that has
\* no order in the chain, because its command string is empty or it is not
\* in the list.
C20_OtherRoversUnchanged ==
  [][/\ pc = "running" /\ i <= Len(orders) =>
          \A q \in Rovers \ {orders[i].rover} : SameRover(q)
     /\ pc \in {"ready", "running"} =>
          \A q \in Rovers :
            (\A j \in 1..Len(orders') : orders'[j].rover # q) => SameRover(q)]_vars

\* a run has ended in which one rover had an empty command string and the
\* other a move that was accepted and a move that ran into the first rover:
\* the first rover faces N on the square it was placed on
C20_Witness ==
  \E q \in Rovers, r \in Rovers :
    /\ pc = "done"
    /\ Len(submitted) = 2
    /\ \E k \in 1..2 : submitted[k] = [rover |-> q, commands |-> <<>>]
    /\ Len(orders) = 2
    /\ orders[1].rover = r /\ orders[2].rover = r
    /\ r # q
    /\ Len(travelLog[r]) = 2
    /\ console[1] = Line(r, CollisionMsg, <<>>)
    /\ direction[q] = "N"
    /\ TravelLog(q) = <<currentCoords[q]>>


\* the squares that are not empty
Occupied == {c \in DOMAIN squares : squares[c] # Empty}

\* C21: from the end of the placement on, no step changes the set of squares
\* holding a rock, which has numObstacles squares, and the occupied squares
\* stay numObstacles plus the number of rovers; an accepted move empties the
\* square its rover stood on, fills the destination with the rover and
\* changes no other square, and any other step changes no square.
C21_RocksStatic ==
  [][(pc = "ready" \/ pc = "running") =>
       /\ SquaresHolding(Rock)' = SquaresHolding(Rock)
       /\ Cardinality(SquaresHolding(Rock)) = numObstacles
       /\ Cardinality(Occupied) = numObstacles + Cardinality(Rovers)
       /\ Cardinality(Occupied') = numObstacles + Cardinality(Rovers)
       /\ DOMAIN squares' = DOMAIN squares
       /\ (IF Moving /\ console' = console
             THEN /\ squares[Idx(Destination)] = Empty
                  /\ squares'[Idx(currentCoords[Mover])] = Empty
                  /\ squares'[Idx(Destination)] = Mover
                  /\ \A c \in DOMAIN squares \ {Idx(currentCoords[Mover]),
                                                Idx(Destination)} :
                       squares'[c] = squares[c]
             ELSE squares' = squares)]_vars

\* a rover has moved one square and was then stopped by the rock in front
\* of it, which is where it was placed
C21_Witness ==
  \E r \in Rovers :
    /\ pc = "running"
    /\ i = 3
    /\ orders = <<[rover |-> r, command |-> "f"], [rover |-> r, command |-> "f"]>>
    /\ Len(travelLog[r]) = 2
    /\ console = <<Line(r, CollisionMsg, <<>>)>>
    /\ numObstacles = 1
    /\ squares[Idx(ForwardDestination(currentCoords[r], direction[r]))] = Rock


\* C22 as stated: commandRovers on a list with no request goes through like
\* a valid list whose strings are all empty: the chain is empty, the run
\* carries on to its end, and no square, heading, position, log or console
\* line changes at the call.
C22_EmptyBatchCompletes ==
  [][(pc = "ready" /\ submitted' = <<>>) =>
       /\ pc' \in {"running", "done"}
       /\ orders' = <<>>
       /\ UNCHANGED <<squares, direction, currentCoords, travelLog, console>>]_vars


====
